---------------------------- MODULE Spec2Model ----------------------------
(***************************************************************************)
(* Model of the patient reconciliation script (src/src/index.ts,           *)
(* processCSV) and of the insertion script (src/unnamed/part_001,          *)
(* insertPatients).                                                        *)
(*                                                                         *)
(* A string is a sequence of one-character strings, so that trim(),        *)
(* toLowerCase(), startsWith() and the UUID regular expression are         *)
(* computed character by character.  A CSV line is the sequence of its     *)
(* comma-separated fields, i.e. the result of line.split(',').             *)
(***************************************************************************)
EXTENDS Integers, Sequences, FiniteSets, TLC

(***************************************************************************)
(* Bounds of the model.                                                    *)
(***************************************************************************)
MaxLines == 2       \* data lines of the input CSV
MaxBatch == 2       \* records of a hand-made output.json
MaxRuns == 2        \* consecutive runs of the insertion script

(***************************************************************************)
(* Characters and strings.                                                 *)
(***************************************************************************)
Upper == <<"A", "B", "C", "D", "E", "F", "I", "L", "M", "N", "X">>
Lower == <<"a", "b", "c", "d", "e", "f", "i", "l", "m", "n", "x">>
WhiteSpace == {" ", "\t", "\r"}
Digits == {"0", "1", "2", "3", "4", "5", "6", "7", "8", "9"}
HexLower == Digits \cup {"a", "b", "c", "d", "e", "f"}

LowerChar(c) ==
    IF \E n \in 1..Len(Upper) : Upper[n] = c
    THEN Lower[CHOOSE n \in 1..Len(Upper) : Upper[n] = c]
    ELSE c

\* String.prototype.toLowerCase
RECURSIVE ToLowerCase(_)
ToLowerCase(s) ==
    IF s = <<>> THEN <<>> ELSE <<LowerChar(Head(s))>> \o ToLowerCase(Tail(s))

\* String.prototype.trimStart / trimEnd / trim
RECURSIVE TrimStart(_)
TrimStart(s) ==
    IF s = <<>> THEN <<>>
    ELSE IF Head(s) \in WhiteSpace THEN TrimStart(Tail(s)) ELSE s

RECURSIVE TrimEnd(_)
TrimEnd(s) ==
    IF s = <<>> THEN <<>>
    ELSE IF s[Len(s)] \in WhiteSpace THEN TrimEnd(SubSeq(s, 1, Len(s) - 1)) ELSE s

Trim(s) == TrimEnd(TrimStart(s))

\* String.prototype.startsWith
StartsWith(s, p) == Len(s) >= Len(p) /\ SubSeq(s, 1, Len(p)) = p

\* lines[i].trim() on a line held as its fields: the line's leading
\* whitespace is in its first field and its trailing whitespace in its last
TrimLine(cols) ==
    IF Len(cols) = 1 THEN <<Trim(cols[1])>>
    ELSE [n \in 1..Len(cols) |->
            IF n = 1 THEN TrimStart(cols[n])
            ELSE IF n = Len(cols) THEN TrimEnd(cols[n])
            ELSE cols[n]]

\* !line : the trimmed line is the empty string
IsEmptyLine(line) == Len(line) = 1 /\ line[1] = <<>>

(***************************************************************************)
(* Field normalizers.                                                      *)
(***************************************************************************)

\* /^[0-9a-f]{8}-[0-9a-f]{4}-[1-5][0-9a-f]{3}-[89ab][0-9a-f]{3}-[0-9a-f]{12}$/i
isValidUUID(str) ==
    /\ Len(str) = 36
    /\ \A n \in 1..36 :
          IF n \in {9, 14, 19, 24} THEN str[n] = "-"
          ELSE IF n = 15 THEN str[n] \in {"1", "2", "3", "4", "5"}
          ELSE IF n = 20 THEN LowerChar(str[n]) \in {"8", "9", "a", "b"}
          ELSE LowerChar(str[n]) \in HexLower

GenderMALE == <<"M", "A", "L", "E">>
GenderFEMALE == <<"F", "E", "M", "A", "L", "E">>
GenderOTHER == <<"O", "T", "H", "E", "R">>

convertGender(gender) ==
    LET normalized == Trim(ToLowerCase(gender)) IN
    IF normalized = <<"m">> \/ normalized = <<"m", "a", "l", "e">> THEN GenderMALE
    ELSE IF normalized = <<"f">> \/ normalized = <<"f", "e", "m", "a", "l", "e">>
         THEN GenderFEMALE
    ELSE GenderOTHER

formatPhoneNumber(phone) ==
    LET cleaned == Trim(phone) IN
    IF StartsWith(cleaned, <<"+", "1">>) THEN cleaned
    ELSE IF StartsWith(cleaned, <<"1">>) THEN <<"+">> \o cleaned
    ELSE <<"+", "1">> \o cleaned

(***************************************************************************)
(* Dates.  new Date(s) never throws: a string that does not parse gives    *)
(* the Invalid Date value.  Only the ISO form yyyy-mm-dd is recognised     *)
(* here.  JSON.stringify writes an Invalid Date as null, and new           *)
(* Date(null) is the epoch.                                                *)
(***************************************************************************)
InvalidDate == <<"N", "a", "N">>
JsonNull == <<"n", "u", "l", "l">>
Epoch == <<"1", "9", "7", "0", "-", "0", "1", "-", "0", "1">>

DateParses(s) ==
    /\ Len(s) = 10
    /\ \A n \in 1..10 : IF n \in {5, 8} THEN s[n] = "-" ELSE s[n] \in Digits

NewDate(s) == IF DateParses(s) THEN s ELSE InvalidDate

DateToJSON(d) == IF d = InvalidDate THEN JsonNull ELSE d


(***************************************************************************)
(* Input data.  UUIDs are written out in full; the other columns are short *)
(* strings.                                                                *)
(***************************************************************************)
Dash == <<"-">>
MkUUID(first, version, variant, last) ==
    <<first, "2", "3", "e", "4", "5", "6", "7">> \o Dash
        \o <<"e", "8", "9", "b">> \o Dash
        \o <<version, "2", "d", "3">> \o Dash
        \o <<variant, "4", "5", "6">> \o Dash
        \o <<"4", "2", "6", "6", "1", "4", "1", "7", "4", "0", "0", last>>

U1 == MkUUID("1", "4", "a", "1")          \* id of a stored patient
U2 == MkUUID("1", "4", "a", "2")          \* id of a stored patient
U3 == MkUUID("1", "1", "B", "3")          \* valid, variant nibble in upper case
U6 == MkUUID("1", "6", "a", "4")          \* version nibble 6: not valid

HexDigit == <<"0", "1", "2", "3", "4", "5", "6", "7", "8", "9", "a", "b", "c", "d", "e", "f">>

\* crypto.randomUUID(): a version 4 UUID; the n-th call of a run returns a
\* value no other call returns and that is no id of the input or the store
randomUUID(n) == MkUUID("f", "4", "9", HexDigit[(n % 16) + 1])

EmailLower == <<"a", "@", "x">>
EmailUpper == <<"A", "@", "X">>
EmailOther == <<"b", "@", "x">>

P1 == [id |-> U1, email |-> EmailLower]
P2 == [id |-> U2, email |-> EmailUpper]
PatientPool == {P1, P2}
UserPool == {"u1"}

Header == << <<"i", "d">>, <<"e", "x", "t">>, <<"f", "n">>, <<"l", "n">>,
             <<"d", "o", "b">>, <<"g">>, <<"e", "m">>, <<"p", "h">>,
             <<"p", "i", "d">>, <<"t", "s", "\r">> >>

GoodDob == <<"1", "9", "9", "0", "-", "0", "1", "-", "0", "2">>
BadDob == <<"b", "a", "d">>

Row(ext, dob, gender, email, phone, last) ==
    << <<"7">>, ext, <<"A", "n">>, <<"L", "i">>, dob, gender, email, phone,
       <<"p">>, last >>

\* external id equal to the stored id U1 (padded), email in lower case
RowSame == Row(<<" ">> \o U1 \o <<" ">>, GoodDob, <<"F">>, EmailLower,
               <<"5", "5", "5">>, <<"t">>)
\* external id that is no UUID, email padded and in mixed case
RowDrift == Row(<<"n", "1">>, GoodDob, <<"m", "a", "l", "e">>,
                <<" ", "A", "@", "x">>, <<"1", "5", "5", "5">>, <<"t">>)
\* unknown email, valid external UUID, CRLF line ending
RowNewValid == Row(U3, GoodDob, <<"x">>, EmailOther,
                   <<"+", "1", "5", "5", "5">>, <<"t", "\r">>)
\* empty email, external id with a bad version nibble, unparsable date
RowNewBad == Row(U6, BadDob, <<>>, <<>>, <<>>, <<"t">>)
\* fewer than 10 fields
RowShort == << <<"7">>, U3, <<"A", "n">> >>
\* a line of white space only
RowBlank == << <<" ", "\r">> >>

RowPool == {RowSame, RowDrift, RowNewValid, RowNewBad, RowShort, RowBlank}

SeqsUpTo(S, n) == UNION {[1..m -> S] : m \in 0..n}

\* every order in which a query may return the rows of S
Orderings(S) ==
    {q \in [1..Cardinality(S) -> S] : \A a, b \in 1..Cardinality(S) : a # b => q[a] # q[b]}

(***************************************************************************)
(* JSON text of output.json: ok is FALSE for text JSON.parse rejects.      *)
(***************************************************************************)
NoJson == [ok |-> FALSE, isArray |-> FALSE, items |-> <<>>]
JsonObject == [ok |-> TRUE, isArray |-> FALSE, items |-> <<>>]
JsonArray(items) == [ok |-> TRUE, isArray |-> TRUE, items |-> items]

\* JSON.stringify(patientsToCreate): Date.prototype.toJSON on each dob
JsonStringify(patients) ==
    JsonArray([n \in 1..Len(patients) |->
                 [patients[n] EXCEPT !.dob = DateToJSON(patients[n].dob)]])


(***************************************************************************)
(* State.                                                                  *)
(***************************************************************************)
VARIABLES
    env,               \* process.env: DATABASE_URL, TENANT_ID, CREATED_BY_ID
    store,             \* the database: patients (id, email) and user ids
    inputCsv,          \* PerfectRx.csv: whether it exists, and its lines
    csvFile,           \* output.csv on disk: "absent", "partial" or "complete"
    jsonFile,          \* output.json on disk: kind and JSON text
    \* processCSV
    pc, lines, i, emailSet, patientEmailMap, written, patientsToCreate,
    processedCount, foundCount, notFoundCount, uuidCount, pending, exitCode,
    reconConn,
    \* insertPatients
    ipc, run, patientsLoaded, existingPatients, patientsToInsert, k, insertLog,
    history, ipending, iexitCode, insertConn

envVars == <<env, store, inputCsv>>
reconVars == <<pc, lines, i, emailSet, patientEmailMap, written, patientsToCreate,
               processedCount, foundCount, notFoundCount, uuidCount, pending,
               exitCode, reconConn, csvFile>>
insertVars == <<ipc, run, patientsLoaded, existingPatients, patientsToInsert, k,
                insertLog, history, ipending, iexitCode, insertConn>>
vars == <<env, store, inputCsv, csvFile, jsonFile, reconVars, insertVars>>

MinColumns == 10
EmptyMap == [e \in {} |-> <<>>]

\* records a hand-made output.json may hold
Rec(id, email, creator) ==
    [id |-> id, tenantId |-> "t1", email |-> email, firstName |-> <<"A", "n">>,
     lastName |-> <<"L", "i">>, dob |-> GoodDob, gender |-> GenderOTHER,
     phoneNumber |-> <<"+", "1">>, createdById |-> creator]
RecPool == {Rec(U3, EmailOther, "u1"), Rec(U1, EmailLower, "u1"), Rec(<<>>, EmailOther, "")}

ArtifactPool ==
    {[kind |-> "absent", text |-> NoJson],
     [kind |-> "complete", text |-> NoJson],
     [kind |-> "complete", text |-> JsonObject]}
    \cup {[kind |-> "complete", text |-> JsonArray(b)] : b \in SeqsUpTo(RecPool, MaxBatch)}

ReconIdle ==
    /\ lines = <<>> /\ i = 0 /\ emailSet = {} /\ patientEmailMap = EmptyMap
    /\ written = <<>> /\ patientsToCreate = <<>>
    /\ processedCount = 0 /\ foundCount = 0 /\ notFoundCount = 0 /\ uuidCount = 0
    /\ pending = "none" /\ exitCode = -1 /\ reconConn = "none"
    /\ csvFile = "absent"

InsertIdle ==
    /\ run = 0 /\ patientsLoaded = <<>> /\ existingPatients = {}
    /\ patientsToInsert = <<>> /\ k = 0 /\ insertLog = <<>> /\ history = <<>>
    /\ ipending = "none" /\ iexitCode = -1 /\ insertConn = "none"

\* the reconciliation script is about to run on some CSV, store and environment
InitRecon ==
    /\ env \in [DATABASE_URL : BOOLEAN, TENANT_ID : {"", "t1"}, CREATED_BY_ID : {"", "u1"}]
    /\ store \in [patients : SUBSET PatientPool, users : {UserPool}]
    /\ inputCsv \in {[exists |-> FALSE, lines |-> <<>>]}
                    \cup {[exists |-> TRUE, lines |-> <<Header>> \o d] :
                             d \in SeqsUpTo(RowPool, MaxLines)}
    /\ jsonFile = [kind |-> "absent", text |-> NoJson]
    /\ pc = "start" /\ ipc = "start"
    /\ ReconIdle /\ InsertIdle

\* the insertion script is about to run on some output.json and store
InitInsert ==
    /\ env \in [DATABASE_URL : BOOLEAN, TENANT_ID : {"t1"}, CREATED_BY_ID : {"u1"}]
    /\ store \in [patients : SUBSET PatientPool, users : SUBSET UserPool]
    /\ inputCsv = [exists |-> FALSE, lines |-> <<>>]
    /\ jsonFile \in ArtifactPool
    /\ pc = "off" /\ ipc = "start"
    /\ ReconIdle /\ InsertIdle

Init == InitRecon \/ InitInsert

(***************************************************************************)
(* processCSV                                                              *)
(***************************************************************************)

\* lines 47-58: DATABASE_URL check, pool and client construction.  The throw
\* is outside the try block: it reaches the .catch of line 280 directly.
ReconStart ==
    /\ pc = "start"
    /\ IF ~env.DATABASE_URL
       THEN /\ pc' = "exited" /\ exitCode' = 1
            /\ UNCHANGED reconConn
       ELSE /\ pc' = "read" /\ reconConn' = "pool"
            /\ UNCHANGED exitCode
    /\ UNCHANGED <<env, store, inputCsv, csvFile, jsonFile, lines, i, emailSet,
                   patientEmailMap, written, patientsToCreate, processedCount,
                   foundCount, notFoundCount, uuidCount, pending, insertVars>>

\* lines 85-96: the lower-cased, trimmed, non-empty emails of the data lines
\* that have at least 10 columns
ExtractEmails(ls) ==
    {ToLowerCase(Trim(TrimLine(ls[n])[7])) :
        n \in {m \in 2..Len(ls) : /\ ~IsEmptyLine(TrimLine(ls[m]))
                                   /\ Len(TrimLine(ls[m])) >= MinColumns}}
      \ {<<>>}

\* lines 62-98: read and split the file, first pass over the lines
ReadCSV ==
    /\ pc = "read"
    /\ IF ~inputCsv.exists
       THEN \* readFileSync throws
            /\ pc' = "finally" /\ pending' = "throw"
            /\ UNCHANGED <<lines, emailSet>>
       ELSE IF Len(inputCsv.lines) = 0
       THEN /\ pc' = "finally" /\ pending' = "return"
            /\ UNCHANGED <<lines, emailSet>>
       ELSE /\ lines' = inputCsv.lines
            /\ emailSet' = ExtractEmails(inputCsv.lines)
            /\ pc' = "fetch"
            /\ UNCHANGED pending
    /\ UNCHANGED <<env, store, inputCsv, csvFile, jsonFile, i, patientEmailMap,
                   written, patientsToCreate, processedCount, foundCount,
                   notFoundCount, uuidCount, exitCode, reconConn, insertVars>>

\* prisma.patient.findMany({where: {email: {in: emails, mode: 'insensitive'}}})
FindManyByEmail(patients, emails) ==
    {p \in patients : ToLowerCase(p.email) \in {ToLowerCase(e) : e \in emails}}

PatientEmailMapRawKey(patients) ==
    LET keyed == {n \in 1..Len(patients) : patients[n].email # <<>>}
        keys == {patients[n].email : n \in keyed}
        last(e) == CHOOSE n \in keyed :
                      /\ patients[n].email = e
                      /\ \A m \in keyed : patients[m].email = e => m <= n
    IN [e \in keys |-> patients[last(e)].id]

\* lines 120-125: forEach over the result, a later row replacing an earlier one
PatientEmailMap(patients) ==
    LET keyed == {n \in 1..Len(patients) : patients[n].email # <<>>}
        keys == {ToLowerCase(patients[n].email) : n \in keyed}
        last(e) == CHOOSE n \in keyed :
                      /\ ToLowerCase(patients[n].email) = e
                      /\ \A m \in keyed : ToLowerCase(patients[m].email) = e => m <= n
    IN [e \in keys |-> patients[last(e)].id]

\* lines 76-77, 130: the header line of output.csv
OutputHeaders(ls) == Append(TrimLine(ls[1]), <<"u", "p", "d">>)

\* lines 104-134: the bulk query, the map, the first write to output.csv
FetchPatients ==
    /\ pc = "fetch"
    /\ reconConn' = "open"
    /\ \/ \* the query fails
          /\ pc' = "finally" /\ pending' = "throw"
          /\ UNCHANGED <<patientEmailMap, written, i>>
       \/ \E patients \in Orderings(FindManyByEmail(store.patients, emailSet)) :
            /\ patientEmailMap' = PatientEmailMap(patients)
            /\ written' = <<OutputHeaders(lines)>>
            /\ i' = 2
            /\ pc' = "loop"
            /\ UNCHANGED pending
    /\ UNCHANGED <<env, store, inputCsv, csvFile, jsonFile, lines, emailSet,
                   patientsToCreate, processedCount, foundCount, notFoundCount,
                   uuidCount, exitCode, insertVars>>


\* lines 157-162: the update column of a row whose email is in the map
MatchedUpdate(existingId, resolved) ==
    IF existingId # resolved THEN resolved ELSE <<>>

\* line 176: the external id is kept
KeepsExternalId(partnerExternalId) ==
    partnerExternalId # <<>> /\ isValidUUID(partnerExternalId)

\* lines 176-182: the id of a new patient; n calls of randomUUID came before
NewPatientId(partnerExternalId, n) ==
    IF KeepsExternalId(partnerExternalId)
    THEN partnerExternalId
    ELSE randomUUID(n)

\* lines 190-193: the guard that throws inside the try block
MissingEnv == env.TENANT_ID = "" \/ env.CREATED_BY_ID = ""

\* lines 169-173, 208-222: the record pushed on patientsToCreate
NewPatient(columns, id) ==
    [id |-> id,
     tenantId |-> env.TENANT_ID,
     email |-> ToLowerCase(ToLowerCase(Trim(columns[7]))),
     firstName |-> Trim(columns[3]),
     lastName |-> Trim(columns[4]),
     dob |-> NewDate(Trim(columns[5])),
     gender |-> convertGender(Trim(columns[6])),
     phoneNumber |-> formatPhoneNumber(Trim(columns[8])),
     createdById |-> env.CREATED_BY_ID]

\* lines 147-150: the column count check
TooFewColumns(columns) == Len(columns) < MinColumns

SkipLineCounted ==
    /\ processedCount' = processedCount + 1
    /\ UNCHANGED <<written, patientsToCreate, foundCount, notFoundCount, uuidCount>>

\* lines 140-142, 147-150: continue, nothing written and nothing counted
SkipLine ==
    UNCHANGED <<written, patientsToCreate, processedCount, foundCount,
                notFoundCount, uuidCount>>

\* lines 136-238: one iteration of the second loop
ProcessLine ==
    /\ pc = "loop"
    /\ i <= Len(lines)
    /\ i' = i + 1
    /\ LET line == TrimLine(lines[i])
           columns == line
           email == ToLowerCase(Trim(columns[7]))
           partnerExternalId == Trim(columns[2])
           id == NewPatientId(partnerExternalId, uuidCount)
       IN
       IF IsEmptyLine(line) \/ TooFewColumns(columns)
       THEN SkipLine
       ELSE
         /\ processedCount' = processedCount + 1
         /\ IF email # <<>> /\ email \in DOMAIN patientEmailMap
            THEN \* email found
                 /\ foundCount' = foundCount + 1
                 /\ written' = Append(written,
                        Append(line, MatchedUpdate(partnerExternalId,
                                                   patientEmailMap[email])))
                 /\ UNCHANGED <<patientsToCreate, notFoundCount, uuidCount>>
            ELSE \* email not found
                 /\ notFoundCount' = notFoundCount + 1
                 /\ uuidCount' = IF KeepsExternalId(partnerExternalId) THEN uuidCount
                                 ELSE uuidCount + 1
                 /\ IF MissingEnv
                    THEN \* thrown at line 192, caught at line 224: nothing is
                         \* pushed and updatePartnerExternalId keeps the id
                         /\ written' = Append(written, Append(line, id))
                         /\ UNCHANGED patientsToCreate
                    ELSE /\ patientsToCreate' =
                               Append(patientsToCreate, NewPatient(columns, id))
                         /\ written' = Append(written, Append(line, <<>>))
                 /\ UNCHANGED foundCount
    /\ UNCHANGED <<env, store, inputCsv, csvFile, jsonFile, pc, lines, emailSet,
                   patientEmailMap, pending, exitCode, reconConn, insertVars>>

\* lines 239-240: the loop is over; output.json is handed to a second stream
WriteBatch ==
    /\ pc = "loop"
    /\ i > Len(lines)
    /\ pc' = "flush"
    /\ UNCHANGED <<env, store, inputCsv, csvFile, jsonFile, lines, i, emailSet,
                   patientEmailMap, written, patientsToCreate, processedCount,
                   foundCount, notFoundCount, uuidCount, pending, exitCode,
                   reconConn, insertVars>>

FileStatus == {"absent", "partial", "complete"}

AwaitFirstStreamOnly ==
    /\ pc = "flush"
    /\ \E j \in FileStatus :
         /\ csvFile' = "complete"
         /\ jsonFile' = [kind |-> j,
                         text |-> IF j = "complete"
                                  THEN JsonStringify(patientsToCreate)
                                  ELSE NoJson]
         /\ pending' = "return"
    /\ pc' = "finally"
    /\ UNCHANGED <<env, store, inputCsv, lines, i, emailSet, patientEmailMap,
                   written, patientsToCreate, processedCount, foundCount,
                   notFoundCount, uuidCount, exitCode, reconConn, insertVars>>

\* lines 243-256: Promise.all over the two streams.  Either both end, or one
\* emits 'error' and the promise rejects whatever the other has written.
AwaitStreams ==
    /\ pc = "flush"
    /\ \/ /\ csvFile' = "complete"
          /\ jsonFile' = [kind |-> "complete", text |-> JsonStringify(patientsToCreate)]
          /\ pending' = "return"
       \/ \E c, j \in FileStatus :
            /\ ~(c = "complete" /\ j = "complete")
            /\ csvFile' = c
            /\ jsonFile' = [kind |-> j,
                            text |-> IF j = "complete"
                                     THEN JsonStringify(patientsToCreate)
                                     ELSE NoJson]
            /\ pending' = "throw"
    /\ pc' = "finally"
    /\ UNCHANGED <<env, store, inputCsv, lines, i, emailSet, patientEmailMap,
                   written, patientsToCreate, processedCount, foundCount,
                   notFoundCount, uuidCount, exitCode, reconConn, insertVars>>

\* lines 265-283: catch rethrows, finally disconnects, then process.exit
ReconFinally ==
    /\ pc = "finally"
    /\ reconConn' = "closed"
    /\ exitCode' = IF pending = "return" THEN 0 ELSE 1
    /\ pc' = "exited"
    /\ UNCHANGED <<env, store, inputCsv, csvFile, jsonFile, lines, i, emailSet,
                   patientEmailMap, written, patientsToCreate, processedCount,
                   foundCount, notFoundCount, uuidCount, pending, insertVars>>

ReconNext ==
    \/ ReconStart
    \/ ReadCSV
    \/ FetchPatients
    \/ ProcessLine
    \/ WriteBatch
    \/ AwaitStreams
    \/ ReconFinally


(***************************************************************************)
(* insertPatients                                                          *)
(***************************************************************************)

\* lines 10-21: DATABASE_URL check, pool and client construction.  The
\* script is run when the reconciliation script is not running.
InsertStart ==
    /\ ipc = "start"
    /\ pc \in {"off", "exited"}
    /\ run' = run + 1
    /\ IF ~env.DATABASE_URL
       THEN /\ ipc' = "exited" /\ iexitCode' = 1
            /\ UNCHANGED insertConn
       ELSE /\ ipc' = "load" /\ insertConn' = "pool"
            /\ UNCHANGED iexitCode
    /\ UNCHANGED <<env, store, inputCsv, jsonFile, reconVars, patientsLoaded,
                   existingPatients, patientsToInsert, k, insertLog, history,
                   ipending>>

LoadBatchEmptyIsFatal ==
    /\ ipc = "load"
    /\ IF jsonFile.kind = "absent"
       THEN /\ ipc' = "exited" /\ iexitCode' = 1
            /\ UNCHANGED <<patientsLoaded, ipending>>
       ELSE IF \/ jsonFile.kind = "partial" \/ ~jsonFile.text.ok
               \/ ~jsonFile.text.isArray \/ Len(jsonFile.text.items) = 0
       THEN /\ ipc' = "finally" /\ ipending' = "throw"
            /\ UNCHANGED <<patientsLoaded, iexitCode>>
       ELSE /\ patientsLoaded' = jsonFile.text.items
            /\ ipc' = IF jsonFile.text.items[1].createdById # ""
                      THEN "checkUser" ELSE "findDup"
            /\ UNCHANGED <<ipending, iexitCode>>
    /\ UNCHANGED <<env, store, inputCsv, jsonFile, reconVars, run,
                   existingPatients, patientsToInsert, k, insertLog, history,
                   insertConn>>

\* lines 24-48: existsSync, readFileSync, JSON.parse, the array check
LoadBatch ==
    /\ ipc = "load"
    /\ IF jsonFile.kind = "absent"
       THEN \* process.exit(1) inside the try block: finally does not run
            /\ ipc' = "exited" /\ iexitCode' = 1
            /\ UNCHANGED <<patientsLoaded, ipending>>
       ELSE IF jsonFile.kind = "partial" \/ ~jsonFile.text.ok
       THEN \* JSON.parse throws
            /\ ipc' = "finally" /\ ipending' = "throw"
            /\ UNCHANGED <<patientsLoaded, iexitCode>>
       ELSE IF ~jsonFile.text.isArray \/ Len(jsonFile.text.items) = 0
       THEN \* line 41: return
            /\ ipc' = "finally" /\ ipending' = "return"
            /\ UNCHANGED <<patientsLoaded, iexitCode>>
       ELSE /\ patientsLoaded' = jsonFile.text.items
            /\ ipc' = IF jsonFile.text.items[1].createdById # ""
                      THEN "checkUser" ELSE "findDup"
            /\ UNCHANGED <<ipending, iexitCode>>
    /\ UNCHANGED <<env, store, inputCsv, jsonFile, reconVars, run,
                   existingPatients, patientsToInsert, k, insertLog, history,
                   insertConn>>

\* lines 50-65: the creator of the first record must be a user
CheckUser ==
    /\ ipc = "checkUser"
    /\ insertConn' = "open"
    /\ \/ \* the query fails
          /\ ipc' = "finally" /\ ipending' = "throw"
          /\ UNCHANGED iexitCode
       \/ /\ patientsLoaded[1].createdById \notin store.users
          \* process.exit(1) inside the try block: finally does not run
          /\ ipc' = "exited" /\ iexitCode' = 1
          /\ UNCHANGED ipending
       \/ /\ patientsLoaded[1].createdById \in store.users
          /\ ipc' = "findDup"
          /\ UNCHANGED <<ipending, iexitCode>>
    /\ UNCHANGED <<env, store, inputCsv, jsonFile, reconVars, run,
                   patientsLoaded, existingPatients, patientsToInsert, k,
                   insertLog, history>>

\* line 70: new Date(patient.dob) on a parsed JSON value
ReviveDate(j) == IF j = JsonNull THEN Epoch ELSE NewDate(j)

\* lines 68-73
PatientsWithDates(patients) ==
    [n \in 1..Len(patients) |->
        [patients[n] EXCEPT !.dob = ReviveDate(patients[n].dob)]]

\* lines 76-89: the stored patients whose id is an id of the batch
FindManyById(patients, batch) ==
    {p \in patients : p.id \in {batch[n].id : n \in 1..Len(batch)} \ {<<>>}}

PatientsToInsertUnfiltered(batch, existing) ==
    LET hasId(p) == p.id # <<>>
    IN SelectSeq(batch, hasId)

\* lines 99-100: the records that have an id no stored patient has
PatientsToInsert(batch, existing) ==
    LET fresh(p) == p.id # <<>> /\ p.id \notin {e.id : e \in existing}
    IN SelectSeq(batch, fresh)

\* lines 68-103: the duplicate pre-check
FindDuplicates ==
    /\ ipc = "findDup"
    /\ insertConn' = "open"
    /\ \/ \* the query fails
          /\ ipc' = "finally" /\ ipending' = "throw"
          /\ UNCHANGED <<existingPatients, patientsToInsert, k>>
       \/ LET withDates == PatientsWithDates(patientsLoaded)
              existing == FindManyById(store.patients, withDates)
          IN /\ existingPatients' = existing
             /\ patientsToInsert' = PatientsToInsert(withDates, existing)
             /\ k' = 1
             /\ ipc' = "insert"
             /\ UNCHANGED ipending
    /\ UNCHANGED <<env, store, inputCsv, jsonFile, reconVars, run,
                   patientsLoaded, insertLog, history, iexitCode>>

InsertOneAbortsOnFailure ==
    /\ ipc = "insert"
    /\ k <= Len(patientsToInsert)
    /\ LET patient == patientsToInsert[k] IN
       \/ /\ patient.id \notin {p.id : p \in store.patients}
          /\ store' = [store EXCEPT !.patients =
                          @ \cup {[id |-> patient.id, email |-> patient.email]}]
          /\ insertLog' = Append(insertLog, [id |-> patient.id, inserted |-> TRUE])
          /\ UNCHANGED <<ipc, ipending>>
       \/ /\ insertLog' = Append(insertLog, [id |-> patient.id, inserted |-> FALSE])
          /\ ipc' = "finally" /\ ipending' = "throw"
          /\ UNCHANGED store
    /\ k' = k + 1
    /\ UNCHANGED <<env, inputCsv, jsonFile, reconVars, run, patientsLoaded,
                   existingPatients, patientsToInsert, history,
                   iexitCode, insertConn>>

\* lines 105-115: one iteration of the insertion loop.  create fails when
\* the id is already stored, and may fail for any other reason; the catch
\* of line 112 logs the failure and the loop goes on.
InsertOne ==
    /\ ipc = "insert"
    /\ k <= Len(patientsToInsert)
    /\ LET patient == patientsToInsert[k] IN
       \/ /\ patient.id \notin {p.id : p \in store.patients}
          /\ store' = [store EXCEPT !.patients =
                          @ \cup {[id |-> patient.id, email |-> patient.email]}]
          /\ insertLog' = Append(insertLog, [id |-> patient.id, inserted |-> TRUE])
       \/ /\ insertLog' = Append(insertLog, [id |-> patient.id, inserted |-> FALSE])
          /\ UNCHANGED store
    /\ k' = k + 1
    /\ UNCHANGED <<ipc, ipending>>
    /\ UNCHANGED <<env, inputCsv, jsonFile, reconVars, run, patientsLoaded,
                   existingPatients, patientsToInsert, history,
                   iexitCode, insertConn>>

\* lines 117-120: the loop is over
InsertCompleted ==
    /\ ipc = "insert"
    /\ k > Len(patientsToInsert)
    /\ ipc' = "finally" /\ ipending' = "return"
    /\ UNCHANGED <<env, store, inputCsv, jsonFile, reconVars, run,
                   patientsLoaded, existingPatients, patientsToInsert, k,
                   insertLog, history, iexitCode, insertConn>>

\* lines 122-140: catch rethrows, finally disconnects, then process.exit
InsertFinally ==
    /\ ipc = "finally"
    /\ insertConn' = "closed"
    /\ iexitCode' = IF ipending = "return" THEN 0 ELSE 1
    /\ ipc' = "exited"
    /\ UNCHANGED <<env, store, inputCsv, jsonFile, reconVars, run,
                   patientsLoaded, existingPatients, patientsToInsert, k,
                   insertLog, history, ipending>>

\* the script is run again on the same output.json; what the ended run
\* printed is kept in history
RunAgain ==
    /\ ipc = "exited"
    /\ run < MaxRuns
    /\ history' = Append(history, [log |-> insertLog,
                                   exit |-> iexitCode,
                                   completed |-> ipending = "return"
                                                  /\ patientsLoaded # <<>>])
    /\ ipc' = "start"
    /\ patientsLoaded' = <<>> /\ existingPatients' = {}
    /\ patientsToInsert' = <<>> /\ k' = 0 /\ insertLog' = <<>>
    /\ ipending' = "none" /\ iexitCode' = -1 /\ insertConn' = "none"
    /\ UNCHANGED <<env, store, inputCsv, jsonFile, reconVars, run>>

InsertNext ==
    \/ InsertStart
    \/ LoadBatch
    \/ CheckUser
    \/ FindDuplicates
    \/ InsertOne
    \/ InsertCompleted
    \/ InsertFinally
    \/ RunAgain

Next == ReconNext \/ InsertNext

Spec == Init /\ [][Next]_vars


(***************************************************************************)
(* Properties.                                                             *)
(***************************************************************************)

\* the data lines written to output.csv so far, after the header
DataLines == IF written = <<>> THEN <<>> ELSE Tail(written)
RowOf(w) == SubSeq(w, 1, Len(w) - 1)
UpdateOf(w) == w[Len(w)]
EmailOf(w) == ToLowerCase(Trim(w[7]))
ExternalIdOf(w) == Trim(w[2])
StoreIdsFor(e) == {p.id : p \in {q \in store.patients : ToLowerCase(q.email) = e}}
HasStoreMatch(w) == EmailOf(w) # <<>> /\ StoreIdsFor(EmailOf(w)) # {}
\* the store is as the bulk query saw it: the insertion script has not run
Reconciling == pc \in {"loop", "flush", "finally"}
IsUnmatched(w) == ~HasStoreMatch(w)
UnmatchedLines == SelectSeq(DataLines, IsUnmatched)
GeneratedIds == {randomUUID(n) : n \in 0..(uuidCount - 1)}

\* C1: every processed row whose non-empty email equals, case-insensitively,
\* the email of a stored patient is Matched: it is counted as found, no
\* record with its email is put on the pending batch, and its update column
\* is empty exactly when its trimmed external id is the resolved store id,
\* and is the resolved store id otherwise.
ReconMatchedRows ==
    Reconciling =>
        /\ \A n \in 1..Len(DataLines) :
             LET w == DataLines[n] IN
             HasStoreMatch(w) =>
                /\ EmailOf(w) \in DOMAIN patientEmailMap
                /\ patientEmailMap[EmailOf(w)] \in StoreIdsFor(EmailOf(w))
                /\ (UpdateOf(w) = <<>>) <=> (ExternalIdOf(w) = patientEmailMap[EmailOf(w)])
                /\ UpdateOf(w) # <<>> => UpdateOf(w) = patientEmailMap[EmailOf(w)]
        /\ foundCount = Len(DataLines) - Len(UnmatchedLines)
        /\ \A n \in 1..Len(patientsToCreate) :
             patientsToCreate[n].email = <<>>
                \/ StoreIdsFor(patientsToCreate[n].email) = {}

WitnessMatchedRows ==
    /\ pc = "loop"
    /\ \E n, m \in 1..Len(DataLines) :
         /\ HasStoreMatch(DataLines[n]) /\ UpdateOf(DataLines[n]) # <<>>
         /\ HasStoreMatch(DataLines[m]) /\ UpdateOf(DataLines[m]) = <<>>

\* C2: every processed row with no email match puts exactly one record on
\* the pending batch, whose id is the row's external id if and only if that
\* id is a valid UUID, and is otherwise a generated UUID that no other
\* record of the run was given.
ReconNewPatientRecords ==
    Reconciling =>
        /\ Len(patientsToCreate) = Len(UnmatchedLines)
        /\ \A n \in 1..Len(patientsToCreate) :
             LET ext == ExternalIdOf(UnmatchedLines[n])
                 rec == patientsToCreate[n]
             IN /\ rec.email = EmailOf(UnmatchedLines[n])
                /\ (rec.id = ext) <=> isValidUUID(ext)
                /\ ~isValidUUID(ext) =>
                      /\ rec.id \in GeneratedIds
                      /\ \A m \in 1..Len(patientsToCreate) : m # n => patientsToCreate[m].id # rec.id

\* C4: every processed data line is written to output.csv with its original
\* content, followed by the update value.
ReconEchoesOriginalLine ==
    pc = "loop" =>
        LET seen == SubSeq(lines, 2, i - 1)
            kept(l) == ~IsEmptyLine(TrimLine(l)) /\ Len(TrimLine(l)) >= 10
            eligible == SelectSeq(seen, kept)
        IN /\ Len(DataLines) = Len(eligible)
           /\ \A n \in 1..Len(eligible) : RowOf(DataLines[n]) = eligible[n]

\* C4 as amended: a data line with fewer than 10 fields adds no line to
\* output.csv, no record to the batch and nothing to the counters; every
\* other non-empty data line adds exactly one line, its content with the
\* leading and trailing white space removed, followed by the update value,
\* in file order, so output.csv has as many data lines as the processed
\* counter says, and processed = matched + new.
ReconSkipsShortLines ==
    pc = "loop" =>
        LET seen == SubSeq(lines, 2, i - 1)
            kept(l) == ~IsEmptyLine(TrimLine(l)) /\ Len(TrimLine(l)) >= 10
            eligible == SelectSeq(seen, kept)
        IN /\ Len(DataLines) = Len(eligible)
           /\ \A n \in 1..Len(eligible) :
                /\ Len(DataLines[n]) = Len(eligible[n]) + 1
                /\ RowOf(DataLines[n]) = TrimLine(eligible[n])
           /\ processedCount = Len(DataLines)
           /\ processedCount = foundCount + notFoundCount
           /\ Len(patientsToCreate) <= notFoundCount

WitnessSkipsShortLines ==
    /\ pc = "loop" /\ i > Len(lines) /\ Len(lines) = 3
    /\ \E n \in 2..3 : Len(lines[n]) > 1 /\ Len(lines[n]) < 10
    /\ processedCount = 1

\* C5: a run that reached a NewPatient row with the tenant id or the
\* creator id missing has processed no later row, is not reported
\* successful and ends with a non-zero exit.
ReconAbortsOnMissingEnv ==
    (pc = "exited" /\ MissingEnv /\ notFoundCount > 0) =>
        /\ exitCode # 0
        /\ notFoundCount = 1
        /\ written # <<>> => ~HasStoreMatch(written[Len(written)])

\* C6: the update column is non-empty only for a Matched row whose external
\* id differs from the resolved id, never for a NewPatient row, also when
\* building the row's record failed.
ReconUpdateOnlyForDrift ==
    Reconciling =>
        \A n \in 1..Len(DataLines) :
            LET w == DataLines[n] IN
            /\ UpdateOf(w) # <<>> =>
                  /\ HasStoreMatch(w)
                  /\ ExternalIdOf(w) # UpdateOf(w)
            /\ (~HasStoreMatch(w) /\ NewDate(Trim(w[5])) = InvalidDate) =>
                  \A m \in 1..Len(patientsToCreate) :
                      patientsToCreate[m].email # EmailOf(w)

ArtifactAbsent == jsonFile.kind = "absent"
ArtifactUnparsable == jsonFile.kind = "partial" \/ (jsonFile.kind = "complete" /\ ~jsonFile.text.ok)
ArtifactNotArray == jsonFile.kind = "complete" /\ jsonFile.text.ok /\ ~jsonFile.text.isArray
ArtifactEmptyArray ==
    /\ jsonFile.kind = "complete" /\ jsonFile.text.ok /\ jsonFile.text.isArray
    /\ jsonFile.text.items = <<>>
InsertedIn(log) == {n \in 1..Len(log) : log[n].inserted}
FailedIn(log) == {n \in 1..Len(log) : ~log[n].inserted}

InsertLoopToleratesFailure ==
    k >= 1 =>
        /\ Len(insertLog) = (IF k > Len(patientsToInsert) THEN Len(patientsToInsert) ELSE k - 1)
        /\ \A n \in 1..Len(insertLog) : insertLog[n].id = patientsToInsert[n].id
        /\ ipc \in {"insert", "finally", "exited"}
        /\ ipc \in {"finally", "exited"} =>
              /\ ipending = "return"
              /\ Len(insertLog) = Len(patientsToInsert)
        /\ ipc = "exited" => iexitCode = 0

WitnessLoopToleratesFailure ==
    /\ ipc = "exited" /\ iexitCode = 0
    /\ \E n, m \in 1..Len(insertLog) :
         n < m /\ ~insertLog[n].inserted /\ insertLog[m].inserted

\* C8: the insertion script ends with a non-zero exit, and attempts no
\* insertion, whenever output.json is absent, is an empty array, or is
\* unparsable or not an array.
InsertAbortsOnBadArtifact ==
    (ipc = "exited" /\ env.DATABASE_URL
       /\ (ArtifactAbsent \/ ArtifactUnparsable \/ ArtifactNotArray \/ ArtifactEmptyArray)) =>
        /\ iexitCode # 0
        /\ insertLog = <<>>

\* C8 as amended: with DATABASE_URL set, the insertion script attempts no
\* insertion when output.json is absent, unparsable, not an array or an
\* empty array; it ends with a non-zero exit when the file is absent or
\* unparsable, and with exit 0 when it is an empty array or not an array.
InsertBadArtifactOutcome ==
    (ipc = "exited" /\ env.DATABASE_URL) =>
        /\ (ArtifactAbsent \/ ArtifactUnparsable) =>
              iexitCode = 1 /\ insertLog = <<>> /\ k = 0
        /\ (ArtifactNotArray \/ ArtifactEmptyArray) =>
              iexitCode = 0 /\ insertLog = <<>> /\ k = 0

WitnessBadArtifactOutcome ==
    /\ ipc = "exited" /\ env.DATABASE_URL
    /\ ArtifactEmptyArray /\ iexitCode = 0

\* C9: in both scripts, a store connection that has been opened is released
\* before the process ends.
ConnectionReleasedOnExit ==
    /\ pc = "exited" => reconConn # "open"
    /\ ipc = "exited" => insertConn # "open"

=============================================================================
